---- MODULE Spec2Model ----
(***************************************************************************)
(* SM3 digest wrapper (Cryptlib/Hash/CryptSm3.c) over an SM3 provider.     *)
(*                                                                         *)
(* The wrapper is five functions over caller-owned memory: context         *)
(* buffers (SM3_CTX) and 32-byte digest buffers.  The provider             *)
(* (sm3_init / sm3_update / sm3_final) is modelled as a Merkle-Damgard     *)
(* hash with the structure of the real one (chaining value, buffered       *)
(* partial block, length counter, 1-marker padding followed by the         *)
(* length) at reduced widths, so that streaming and one-shot hashing are   *)
(* computed along different paths.                                         *)
(***************************************************************************)
EXTENDS Integers, Sequences, FiniteSets, TLC

\* ---------------------------------------------------------------- bounds
\* longest byte string fed to one context between Init and Final
MaxLen == 2

\* ------------------------------------------------------- memory and values
NULL == 0
\* the caller-allocated context buffers (pointers 1 and 2; 0 is NULL)
Ctx == {1, 2}
\* the caller-allocated HashValue buffer (pointer 1; 0 is NULL)
Buf == {1}
Byte == {0, 1}

\* provider block size in bytes, and the modulus of a chaining word
SM3_CBLOCK == 2
SM3_WORD == 4
\* a digest buffer that holds no digest the program defines (never written,
\* or written by a provider call that failed or ran on an invalid context)
Indet == -1
Digest == 0 .. (SM3_WORD - 1)
\* longest Data buffer of one Sm3Update / Sm3HashAll call: one whole block
MaxData == SM3_CBLOCK

RECURSIVE SeqsOfLen(_)
SeqsOfLen(n) ==
  IF n = 0 THEN {<<>>}
  ELSE {Append(s, x) : s \in SeqsOfLen(n - 1), x \in Byte}

BytesUpTo(n) == UNION {SeqsOfLen(k) : k \in 0 .. n}

Take(s, n) == SubSeq(s, 1, n)
Drop(s, n) == SubSeq(s, n + 1, Len(s))

\* A Data argument: a NULL pointer, or a pointer to a caller buffer.
NullData == [null |-> TRUE, bytes |-> <<>>]
DataAt(s) == [null |-> FALSE, bytes |-> s]
\* what a (Data, DataSize) pair is to the parameter checks and the provider
DataKind(Data, DataSize) ==
  IF Data.null THEN (IF DataSize = 0 THEN "NullEmpty" ELSE "NullSized")
  ELSE IF DataSize = 0 THEN "Empty" ELSE "Bytes"
\* (Data, DataSize) pairs a caller passes: NULL with any size, or a buffer
\* with its length.
DataArgs ==
  {<<NullData, n>> : n \in 0 .. MaxData}
    \cup {<<DataAt(s), Len(s)>> : s \in BytesUpTo(MaxData)}

\* ------------------------------------------------------------ the provider
Lives == {"Uninitialized", "Active", "Consumed"}

\* A context buffer whose bytes are not a hash state: never initialized,
\* left behind by a failed provider call, or consumed by sm3_final.
Garbage(life) == [life |-> life, h |-> 0, data |-> <<>>, nl |-> 0]

\* the compression function on one block
sm3_compress(h, blk) == (3 * h + 2 * blk[1] + blk[2] + 1) % SM3_WORD

\* compression of consecutive whole blocks
RECURSIVE sm3_block_data_order(_, _)
sm3_block_data_order(h, p) ==
  IF Len(p) < SM3_CBLOCK THEN h
  ELSE sm3_block_data_order(sm3_compress(h, Take(p, SM3_CBLOCK)),
                            Drop(p, SM3_CBLOCK))

SM3_IV == 1

sm3_init(r) ==
  IF r
  THEN [ret |-> TRUE,
        ctx |-> [life |-> "Active", h |-> SM3_IV, data |-> <<>>, nl |-> 0]]
  ELSE [ret |-> FALSE, ctx |-> Garbage("Uninitialized")]

\* the streaming update on a valid state: complete the buffered partial
\* block, compress whole blocks straight from the input, buffer the rest
HashUpdate(c, bytes) ==
  LET n == Len(c.data)
      fill == SM3_CBLOCK - n
      joins == n # 0 /\ Len(bytes) >= fill
      h1 == IF joins THEN sm3_compress(c.h, c.data \o Take(bytes, fill))
            ELSE c.h
      rest == IF joins THEN Drop(bytes, fill) ELSE bytes
      kept == IF joins THEN <<>> ELSE c.data
      whole == (Len(rest) \div SM3_CBLOCK) * SM3_CBLOCK
  IN  IF n # 0 /\ ~joins
      THEN [c EXCEPT !.data = c.data \o bytes, !.nl = c.nl + Len(bytes)]
      ELSE [c EXCEPT !.h = sm3_block_data_order(h1, Take(rest, whole)),
                     !.data = kept \o Drop(rest, whole),
                     !.nl = c.nl + Len(bytes)]

sm3_update(c, Data, len, r) ==
  IF len = 0 THEN [ret |-> TRUE, ctx |-> c]
  ELSE IF c.life # "Active" THEN [ret |-> r, ctx |-> c]
  ELSE IF r THEN [ret |-> TRUE, ctx |-> HashUpdate(c, Take(Data.bytes, len))]
  ELSE [ret |-> FALSE, ctx |-> Garbage("Uninitialized")]

\* padding and length encoding: the 1 marker, zero fill, the length in the
\* last byte of the last block
HashFinal(c) ==
  LET p == c.data \o <<1>>
      over == Len(p) > SM3_CBLOCK - 1
      h1 == IF over THEN sm3_compress(c.h, p) ELSE c.h
      q == IF over THEN <<>> ELSE p
      zeros == [i \in 1 .. (SM3_CBLOCK - 1 - Len(q)) |-> 0]
  IN  sm3_compress(h1, q \o zeros \o <<c.nl % 4>>)

sm3_final(c, r) ==
  IF c.life # "Active" THEN [ret |-> r, digest |-> Indet, ctx |-> c]
  ELSE IF r
  THEN [ret |-> TRUE, digest |-> HashFinal(c), ctx |-> Garbage("Consumed")]
  ELSE [ret |-> FALSE, digest |-> Indet, ctx |-> Garbage("Uninitialized")]

\* ---------------------------------------------------------------- state
VARIABLES
  ctx,    \* the context buffers: Ctx -> SM3_CTX contents
  hv,     \* the digest buffers: Buf -> Digest or Indet
  last,   \* the call that has just returned: arguments, provider calls, result
  fed,    \* history: the bytes fed to each Active context since sm3_init
  paired, \* history: the contexts descend from one copy of an Active one
  solo    \* history: each context as the calls on it alone leave it

vars == <<ctx, hv, last, fed, paired, solo>>

\* op: the function called; c, dst, b: its context, new-context and
\* HashValue arguments, and data: the kind of its (Data, DataSize)
\* arguments, each as far as the call read its arguments (NULL, "NA" for
\* those after the one a parameter check stopped at);
\* ncalls: provider calls made; pok: all of them returned success; ret: the
\* BOOLEAN returned; pre: what the context that Sm3Init, Sm3Duplicate or
\* Sm3Update wrote held before the call; sret, sdig: result and digest of
\* the same call on the solo context.
NoCall ==
  [op |-> "None", c |-> NULL, dst |-> NULL, b |-> NULL, data |-> "NA",
   ncalls |-> 0, pok |-> TRUE, ret |-> FALSE, pre |-> "NA",
   sret |-> FALSE, sdig |-> Indet]

Init ==
  /\ ctx = [c \in Ctx |-> Garbage("Uninitialized")]
  /\ hv = [b \in Buf |-> Indet]
  /\ last = NoCall
  /\ fed = [c \in Ctx |-> <<>>]
  /\ paired = FALSE
  /\ solo = [c \in Ctx |-> Garbage("Uninitialized")]

\* the history of a context after a call leaves it with contents cv
FedAfter(cv, s) == IF cv.life = "Active" THEN s ELSE <<>>
\* what context c holds: "Fed" when it is Active with bytes fed to it,
\* its lifecycle state otherwise
PreOf(c) == IF fed[c] # <<>> THEN "Fed" ELSE ctx[c].life
\* the pair lasts while one of its contexts is Active
PairedAfter(mem, p) == p /\ \E c \in Ctx : mem[c].life = "Active"

\* ------------------------------------------------------------ the wrapper
\* Sm3Init that drops the provider's result and reports success
Sm3Init_IgnoresResult(Sm3Context) ==
  IF Sm3Context = NULL
  THEN /\ last' = [NoCall EXCEPT !.op = "Init"]
       /\ UNCHANGED <<ctx, hv, fed, paired, solo>>
  ELSE \E r \in BOOLEAN :
       LET res == sm3_init(r)
       IN  /\ ctx' = [ctx EXCEPT ![Sm3Context] = res.ctx]
           /\ solo' = [solo EXCEPT ![Sm3Context] = res.ctx]
           /\ fed' = [fed EXCEPT ![Sm3Context] = <<>>]
           /\ paired' = FALSE
           /\ last' = [NoCall EXCEPT !.op = "Init", !.c = Sm3Context,
                                     !.ncalls = 1, !.pok = res.ret,
                                     !.ret = TRUE,
                                     !.pre = PreOf(Sm3Context),
                                     !.sret = TRUE]
           /\ UNCHANGED hv

Sm3Init(Sm3Context) ==
  IF Sm3Context = NULL
  THEN /\ last' = [NoCall EXCEPT !.op = "Init"]
       /\ UNCHANGED <<ctx, hv, fed, paired, solo>>
  ELSE \E r \in BOOLEAN :
       LET res == sm3_init(r)
       IN  /\ ctx' = [ctx EXCEPT ![Sm3Context] = res.ctx]
           /\ solo' = [solo EXCEPT ![Sm3Context] = res.ctx]
           /\ fed' = [fed EXCEPT ![Sm3Context] = <<>>]
           /\ paired' = FALSE
           /\ last' = [NoCall EXCEPT !.op = "Init", !.c = Sm3Context,
                                     !.ncalls = 1, !.pok = res.ret,
                                     !.ret = res.ret,
                                     !.pre = PreOf(Sm3Context),
                                     !.sret = res.ret]
           /\ UNCHANGED hv

\* the pair after Sm3Duplicate: made by a copy of an Active context into
\* another one, kept by a copy of a context onto itself, broken by a copy
\* of anything else
PairedByCopy(from, to) ==
  IF from = to THEN paired ELSE ctx[from].life = "Active"

\* Sm3Duplicate whose CopyMem is too short: the chaining value and the
\* length are copied, the buffered partial block is not
Sm3Duplicate_Short(Sm3Context, NewSm3Context) ==
  IF Sm3Context = NULL \/ NewSm3Context = NULL
  THEN /\ last' = [NoCall EXCEPT !.op = "Duplicate", !.c = Sm3Context]
       /\ UNCHANGED <<ctx, hv, fed, paired, solo>>
  ELSE /\ ctx' = [ctx EXCEPT ![NewSm3Context] =
                                [ctx[Sm3Context] EXCEPT !.data = <<>>]]
       /\ solo' = [solo EXCEPT ![NewSm3Context] =
                                [ctx[Sm3Context] EXCEPT !.data = <<>>]]
       /\ fed' = [fed EXCEPT ![NewSm3Context] = fed[Sm3Context]]
       /\ paired' = PairedByCopy(Sm3Context, NewSm3Context)
       /\ last' = [NoCall EXCEPT !.op = "Duplicate", !.c = Sm3Context,
                                 !.dst = NewSm3Context, !.ret = TRUE,
                                 !.pre = PreOf(NewSm3Context),
                                 !.sret = TRUE]
       /\ UNCHANGED hv

\* Sm3Duplicate whose CopyMem arguments are swapped: the new context is
\* copied over the source
Sm3Duplicate_Swapped(Sm3Context, NewSm3Context) ==
  IF Sm3Context = NULL \/ NewSm3Context = NULL
  THEN /\ last' = [NoCall EXCEPT !.op = "Duplicate", !.c = Sm3Context]
       /\ UNCHANGED <<ctx, hv, fed, paired, solo>>
  ELSE /\ ctx' = [ctx EXCEPT ![Sm3Context] = ctx[NewSm3Context]]
       /\ solo' = [solo EXCEPT ![Sm3Context] = ctx[NewSm3Context]]
       /\ fed' = [fed EXCEPT ![Sm3Context] = fed[NewSm3Context]]
       /\ paired' = PairedByCopy(NewSm3Context, Sm3Context)
       /\ last' = [NoCall EXCEPT !.op = "Duplicate", !.c = Sm3Context,
                                 !.dst = NewSm3Context, !.ret = TRUE,
                                 !.pre = PreOf(NewSm3Context),
                                 !.sret = TRUE]
       /\ UNCHANGED hv

Sm3Duplicate(Sm3Context, NewSm3Context) ==
  IF Sm3Context = NULL \/ NewSm3Context = NULL
  THEN /\ last' = [NoCall EXCEPT !.op = "Duplicate", !.c = Sm3Context]
       /\ UNCHANGED <<ctx, hv, fed, paired, solo>>
  ELSE /\ ctx' = [ctx EXCEPT ![NewSm3Context] = ctx[Sm3Context]]
       /\ solo' = [solo EXCEPT ![NewSm3Context] = ctx[Sm3Context]]
       /\ fed' = [fed EXCEPT ![NewSm3Context] = fed[Sm3Context]]
       /\ paired' = PairedByCopy(Sm3Context, NewSm3Context)
       /\ last' = [NoCall EXCEPT !.op = "Duplicate", !.c = Sm3Context,
                                 !.dst = NewSm3Context, !.ret = TRUE,
                                 !.pre = PreOf(NewSm3Context),
                                 !.sret = TRUE]
       /\ UNCHANGED hv

\* Sm3Update that rejects Data = NULL whatever DataSize is
Sm3Update_RejectsNullData(Sm3Context, Data, DataSize) ==
  IF Sm3Context = NULL
  THEN /\ last' = [NoCall EXCEPT !.op = "Update"]
       /\ UNCHANGED <<ctx, hv, fed, paired, solo>>
  ELSE IF Data.null
  THEN /\ last' = [NoCall EXCEPT !.op = "Update", !.c = Sm3Context,
                                 !.data = DataKind(Data, DataSize)]
       /\ UNCHANGED <<ctx, hv, fed, paired, solo>>
  ELSE \E r \in BOOLEAN :
       LET res == sm3_update(ctx[Sm3Context], Data, DataSize, r)
           alone == sm3_update(solo[Sm3Context], Data, DataSize, r)
           now == [ctx EXCEPT ![Sm3Context] = res.ctx]
       IN  /\ Len(fed[Sm3Context]) + DataSize <= MaxLen
           /\ ctx' = now
           /\ solo' = [solo EXCEPT ![Sm3Context] = alone.ctx]
           /\ fed' = [fed EXCEPT ![Sm3Context] =
                        FedAfter(res.ctx, @ \o Take(Data.bytes, DataSize))]
           /\ paired' = PairedAfter(now, paired)
           /\ last' = [NoCall EXCEPT !.op = "Update", !.c = Sm3Context,
                                     !.data = DataKind(Data, DataSize),
                                     !.ncalls = 1, !.pok = res.ret,
                                     !.ret = res.ret,
                                     !.pre = PreOf(Sm3Context),
                                     !.sret = alone.ret]
           /\ UNCHANGED hv

\* Sm3Update that hashes into one static SM3_CTX (the memory of context 1)
\* instead of the context it is given
Sm3Update_StaticCtx(Sm3Context, Data, DataSize) ==
  IF Sm3Context = NULL
  THEN /\ last' = [NoCall EXCEPT !.op = "Update"]
       /\ UNCHANGED <<ctx, hv, fed, paired, solo>>
  ELSE IF Data.null /\ DataSize # 0
  THEN /\ last' = [NoCall EXCEPT !.op = "Update", !.c = Sm3Context,
                                 !.data = DataKind(Data, DataSize)]
       /\ UNCHANGED <<ctx, hv, fed, paired, solo>>
  ELSE \E r \in BOOLEAN :
       LET res == sm3_update(ctx[1], Data, DataSize, r)
           alone == sm3_update(solo[Sm3Context], Data, DataSize, r)
           now == [ctx EXCEPT ![1] = res.ctx]
       IN  /\ Len(fed[1]) + DataSize <= MaxLen
           /\ ctx' = now
           /\ solo' = [solo EXCEPT ![Sm3Context] = alone.ctx]
           /\ fed' = [fed EXCEPT ![1] =
                        FedAfter(res.ctx, @ \o Take(Data.bytes, DataSize))]
           /\ paired' = PairedAfter(now, paired)
           /\ last' = [NoCall EXCEPT !.op = "Update", !.c = Sm3Context,
                                     !.data = DataKind(Data, DataSize),
                                     !.ncalls = 1, !.pok = res.ret,
                                     !.ret = res.ret,
                                     !.pre = PreOf(Sm3Context),
                                     !.sret = alone.ret]
           /\ UNCHANGED hv

Sm3Update(Sm3Context, Data, DataSize) ==
  IF Sm3Context = NULL
  THEN /\ last' = [NoCall EXCEPT !.op = "Update"]
       /\ UNCHANGED <<ctx, hv, fed, paired, solo>>
  ELSE IF Data.null /\ DataSize # 0
  THEN /\ last' = [NoCall EXCEPT !.op = "Update", !.c = Sm3Context,
                                 !.data = DataKind(Data, DataSize)]
       /\ UNCHANGED <<ctx, hv, fed, paired, solo>>
  ELSE \E r \in BOOLEAN :
       LET res == sm3_update(ctx[Sm3Context], Data, DataSize, r)
           alone == sm3_update(solo[Sm3Context], Data, DataSize, r)
           now == [ctx EXCEPT ![Sm3Context] = res.ctx]
       IN  /\ Len(fed[Sm3Context]) + DataSize <= MaxLen
           /\ ctx' = now
           /\ solo' = [solo EXCEPT ![Sm3Context] = alone.ctx]
           /\ fed' = [fed EXCEPT ![Sm3Context] =
                        FedAfter(res.ctx, @ \o Take(Data.bytes, DataSize))]
           /\ paired' = PairedAfter(now, paired)
           /\ last' = [NoCall EXCEPT !.op = "Update", !.c = Sm3Context,
                                     !.data = DataKind(Data, DataSize),
                                     !.ncalls = 1, !.pok = res.ret,
                                     !.ret = res.ret,
                                     !.pre = PreOf(Sm3Context),
                                     !.sret = alone.ret]
           /\ UNCHANGED hv

\* Sm3Final that finalizes a copy of the context and leaves the caller's
\* context as it was
Sm3Final_OnCopy(Sm3Context, HashValue) ==
  IF Sm3Context = NULL \/ HashValue = NULL
  THEN /\ last' = [NoCall EXCEPT !.op = "Final", !.c = Sm3Context]
       /\ UNCHANGED <<ctx, hv, fed, paired, solo>>
  ELSE \E r \in BOOLEAN :
       LET res == sm3_final(ctx[Sm3Context], r)
           alone == sm3_final(solo[Sm3Context], r)
       IN  /\ hv' = [hv EXCEPT ![HashValue] = res.digest]
           /\ UNCHANGED <<ctx, fed, paired, solo>>
           /\ last' = [NoCall EXCEPT !.op = "Final", !.c = Sm3Context,
                                     !.b = HashValue, !.ncalls = 1,
                                     !.pok = res.ret, !.ret = res.ret,
                                     !.sret = alone.ret,
                                     !.sdig = alone.digest]

\* Sm3Final without the HashValue check: the provider runs on the context
\* although there is no buffer for the digest
Sm3Final_NoHashValueCheck(Sm3Context, HashValue) ==
  IF Sm3Context = NULL
  THEN /\ last' = [NoCall EXCEPT !.op = "Final", !.c = Sm3Context]
       /\ UNCHANGED <<ctx, hv, fed, paired, solo>>
  ELSE \E r \in BOOLEAN :
       LET res == sm3_final(ctx[Sm3Context], r)
           alone == sm3_final(solo[Sm3Context], r)
           now == [ctx EXCEPT ![Sm3Context] = res.ctx]
       IN  /\ ctx' = now
           /\ hv' = IF HashValue = NULL THEN hv
                    ELSE [hv EXCEPT ![HashValue] = res.digest]
           /\ solo' = [solo EXCEPT ![Sm3Context] = alone.ctx]
           /\ fed' = [fed EXCEPT ![Sm3Context] = FedAfter(res.ctx, @)]
           /\ paired' = PairedAfter(now, paired)
           /\ last' = [NoCall EXCEPT !.op = "Final", !.c = Sm3Context,
                                     !.b = HashValue, !.ncalls = 1,
                                     !.pok = res.ret, !.ret = res.ret,
                                     !.sret = alone.ret,
                                     !.sdig = alone.digest]

Sm3Final(Sm3Context, HashValue) ==
  IF Sm3Context = NULL \/ HashValue = NULL
  THEN /\ last' = [NoCall EXCEPT !.op = "Final", !.c = Sm3Context]
       /\ UNCHANGED <<ctx, hv, fed, paired, solo>>
  ELSE \E r \in BOOLEAN :
       LET res == sm3_final(ctx[Sm3Context], r)
           alone == sm3_final(solo[Sm3Context], r)
           now == [ctx EXCEPT ![Sm3Context] = res.ctx]
       IN  /\ ctx' = now
           /\ hv' = [hv EXCEPT ![HashValue] = res.digest]
           /\ solo' = [solo EXCEPT ![Sm3Context] = alone.ctx]
           /\ fed' = [fed EXCEPT ![Sm3Context] = FedAfter(res.ctx, @)]
           /\ paired' = PairedAfter(now, paired)
           /\ last' = [NoCall EXCEPT !.op = "Final", !.c = Sm3Context,
                                     !.b = HashValue, !.ncalls = 1,
                                     !.pok = res.ret, !.ret = res.ret,
                                     !.sret = alone.ret,
                                     !.sdig = alone.digest]

\* results of the three provider calls of one Sm3HashAll: all succeed, or
\* one of them fails (what the calls after a failed one return changes
\* nothing: Sm3HashAll reads none of the results)
ProviderRuns ==
  {<<TRUE, TRUE, TRUE>>, <<FALSE, TRUE, TRUE>>, <<TRUE, FALSE, TRUE>>,
   <<TRUE, TRUE, FALSE>>}

\* the provider calls of an Sm3HashAll that never feeds the data
HashAllRun_NoUpdate(Data, DataSize, r1, r2, r3) ==
  LET i == sm3_init(r1)
      f == sm3_final(i.ctx, r3)
  IN  [pok |-> i.ret /\ f.ret, digest |-> f.digest, left |-> f.ctx]

\* the three provider calls of Sm3HashAll on its stack-local SM3_CTX c
HashAllRun(Data, DataSize, r1, r2, r3) ==
  LET i == sm3_init(r1)
      u == sm3_update(i.ctx, Data, DataSize, r2)
      f == sm3_final(u.ctx, r3)
  IN  [pok |-> i.ret /\ u.ret /\ f.ret, digest |-> f.digest, left |-> f.ctx]

\* Sm3HashAll that returns whether every provider call succeeded
Sm3HashAll_Checked(Data, DataSize, HashValue) ==
  IF HashValue = NULL
  THEN /\ last' = [NoCall EXCEPT !.op = "HashAll"]
       /\ UNCHANGED <<ctx, hv, fed, paired, solo>>
  ELSE IF Data.null /\ DataSize # 0
  THEN /\ last' = [NoCall EXCEPT !.op = "HashAll", !.b = HashValue,
                                 !.data = DataKind(Data, DataSize)]
       /\ UNCHANGED <<ctx, hv, fed, paired, solo>>
  ELSE \E rs \in ProviderRuns :
       LET run == HashAllRun(Data, DataSize, rs[1], rs[2], rs[3])
       IN  /\ hv' = [hv EXCEPT ![HashValue] = run.digest]
           /\ last' = [NoCall EXCEPT !.op = "HashAll", !.b = HashValue,
                                     !.data = DataKind(Data, DataSize),
                                     !.ncalls = 3, !.pok = run.pok,
                                     !.ret = run.pok, !.sret = run.pok,
                                     !.sdig = run.digest]
           /\ UNCHANGED <<ctx, fed, paired, solo>>

\* Sm3HashAll whose SM3_CTX is static (the memory of context 1) instead of
\* stack-local
Sm3HashAll_StaticCtx(Data, DataSize, HashValue) ==
  IF HashValue = NULL
  THEN /\ last' = [NoCall EXCEPT !.op = "HashAll"]
       /\ UNCHANGED <<ctx, hv, fed, paired, solo>>
  ELSE IF Data.null /\ DataSize # 0
  THEN /\ last' = [NoCall EXCEPT !.op = "HashAll", !.b = HashValue,
                                 !.data = DataKind(Data, DataSize)]
       /\ UNCHANGED <<ctx, hv, fed, paired, solo>>
  ELSE \E rs \in ProviderRuns :
       LET run == HashAllRun(Data, DataSize, rs[1], rs[2], rs[3])
           now == [ctx EXCEPT ![1] = run.left]
       IN  /\ hv' = [hv EXCEPT ![HashValue] = run.digest]
           /\ ctx' = now
           /\ fed' = [fed EXCEPT ![1] = <<>>]
           /\ paired' = PairedAfter(now, paired)
           /\ last' = [NoCall EXCEPT !.op = "HashAll", !.b = HashValue,
                                     !.data = DataKind(Data, DataSize),
                                     !.ncalls = 3, !.pok = run.pok,
                                     !.ret = TRUE, !.sret = TRUE,
                                     !.sdig = run.digest]
           /\ UNCHANGED solo

Sm3HashAll(Data, DataSize, HashValue) ==
  IF HashValue = NULL
  THEN /\ last' = [NoCall EXCEPT !.op = "HashAll"]
       /\ UNCHANGED <<ctx, hv, fed, paired, solo>>
  ELSE IF Data.null /\ DataSize # 0
  THEN /\ last' = [NoCall EXCEPT !.op = "HashAll", !.b = HashValue,
                                 !.data = DataKind(Data, DataSize)]
       /\ UNCHANGED <<ctx, hv, fed, paired, solo>>
  ELSE \E rs \in ProviderRuns :
       LET run == HashAllRun(Data, DataSize, rs[1], rs[2], rs[3])
       IN  /\ hv' = [hv EXCEPT ![HashValue] = run.digest]
           /\ last' = [NoCall EXCEPT !.op = "HashAll", !.b = HashValue,
                                     !.data = DataKind(Data, DataSize),
                                     !.ncalls = 3, !.pok = run.pok,
                                     !.ret = TRUE, !.sret = TRUE,
                                     !.sdig = run.digest]
           /\ UNCHANGED <<ctx, fed, paired, solo>>

\* ------------------------------------------------------- the specification
CallInit == \E c \in Ctx \cup {NULL} : Sm3Init(c)

CallDuplicate ==
  \E c \in Ctx \cup {NULL}, n \in Ctx \cup {NULL} : Sm3Duplicate(c, n)

CallUpdate ==
  \E c \in Ctx \cup {NULL}, d \in DataArgs : Sm3Update(c, d[1], d[2])

CallFinal == \E c \in Ctx \cup {NULL}, b \in Buf \cup {NULL} : Sm3Final(c, b)

CallHashAll ==
  \E d \in DataArgs, b \in Buf \cup {NULL} : Sm3HashAll(d[1], d[2], b)

Next == CallInit \/ CallDuplicate \/ CallUpdate \/ CallFinal \/ CallHashAll

Spec == Init /\ [][Next]_vars

\* ------------------------------------------------------------- the claims
\* the parameter checks, read off the arguments of the call
Rejected(l) ==
  \/ l.op = "Init" /\ l.c = NULL
  \/ l.op = "Duplicate" /\ (l.c = NULL \/ l.dst = NULL)
  \/ l.op = "Update" /\ (l.c = NULL \/ l.data = "NullSized")
  \/ l.op = "Final" /\ (l.c = NULL \/ l.b = NULL)
  \/ l.op = "HashAll" /\ (l.b = NULL \/ l.data = "NullSized")

\* the digest Sm3HashAll writes for the byte string s when the provider works
HashAllOf(s) == HashAllRun(DataAt(s), Len(s), TRUE, TRUE, TRUE).digest

\* a step in which Sm3Final succeeded on the Active context it was given
FinalDone ==
  /\ last'.op = "Final" /\ ~Rejected(last') /\ last'.ret
  /\ ctx[last'.c].life = "Active"

\* C1: however the bytes fed to a context since Sm3Init were split over
\* Sm3Update calls (empty parts included), after every Sm3Update the
\* digest Sm3Final would write for it is the digest Sm3HashAll writes for
\* their concatenation, and a successful Sm3Final writes that digest.
C1_ChunkingInvariance ==
  [][/\ (/\ last'.op = "Update" /\ last'.c # NULL
         /\ ctx'[last'.c].life = "Active")
          => sm3_final(ctx'[last'.c], TRUE).digest = HashAllOf(fed'[last'.c])
     /\ FinalDone => hv'[last'.b] = HashAllOf(fed[last'.c])]_vars

\* Sm3Update has just fed a non-empty second part to a context that held a
\* non-empty first part.
C1_Witness ==
  /\ last.op = "Update" /\ last.ret /\ last.data = "Bytes"
  /\ last.pre = "Fed" /\ ctx[last.c].life = "Active"

\* C2: after Sm3Duplicate of an Active context into another one, each of
\* the two finalizes to the Sm3HashAll digest of the data fed before the
\* copy followed by the data fed to that context after it, and no
\* Sm3Update or Sm3Final on one context changes any other context.
C2_DuplicateIndependence ==
  [][/\ (FinalDone /\ paired) => hv'[last'.b] = HashAllOf(fed[last'.c])
     /\ (last'.op \in {"Update", "Final"} /\ last'.c # NULL)
          => \A d \in Ctx \ {last'.c} :
               ctx'[d] = ctx[d] /\ fed'[d] = fed[d]]_vars

\* Sm3Final has just succeeded on one context of a duplicated pair while
\* the other one is still Active and holds data.
C2_Witness ==
  /\ paired /\ last.op = "Final" /\ last.ret /\ hv[last.b] \in Digest
  /\ \E d \in Ctx \ {last.c} : ctx[d].life = "Active" /\ fed[d] # <<>>

\* C3: Sm3Update with Data = NULL on an Active context fails when
\* DataSize > 0, and succeeds leaving every context and digest buffer
\* unchanged when DataSize = 0.
C3_NullDataUpdate ==
  [][(/\ last'.op = "Update" /\ last'.c # NULL
      /\ ctx[last'.c].life = "Active")
       => /\ last'.data = "NullSized" => ~last'.ret
          /\ last'.data = "NullEmpty"
               => last'.ret /\ ctx' = ctx /\ hv' = hv /\ fed' = fed]_vars

\* Sm3Update(ctx, NULL, 0) has just succeeded on an Active context that
\* holds data.
C3_Witness ==
  /\ last.op = "Update" /\ last.c # NULL /\ last.data = "NullEmpty"
  /\ last.ret
  /\ ctx[last.c].life = "Active" /\ fed[last.c] # <<>>

C5_RejectedCallsChangeNothing ==
  [][Rejected(last')
       => /\ ~last'.ret /\ last'.ncalls = 0
          /\ ctx' = ctx /\ hv' = hv /\ fed' = fed]_vars

\* Sm3Final(ctx, NULL) has just been rejected on an Active context that
\* holds data.
C5_Witness ==
  /\ last.op = "Final" /\ last.c # NULL /\ last.b = NULL /\ ~last.ret
  /\ ctx[last.c].life = "Active" /\ fed[last.c] # <<>>

C7_ProviderResultForwarded ==
  (last.op \in {"Init", "Update", "Final"} /\ ~Rejected(last))
    => (last.ncalls = 1 /\ last.ret = last.pok)

\* Sm3Final has just returned FALSE because the provider call failed.
C7_Witness ==
  last.op = "Final" /\ ~Rejected(last) /\ ~last.pok /\ ~last.ret

\* C8: Sm3Duplicate with both references present returns TRUE, leaves the
\* source (and every other context and buffer) unchanged and makes the
\* destination equal to the source, whatever either held.
C8_DuplicateCopies ==
  [][(last'.op = "Duplicate" /\ ~Rejected(last'))
       => /\ last'.ret
          /\ ctx'[last'.dst] = ctx[last'.c]
          /\ \A d \in Ctx \ {last'.dst} : ctx'[d] = ctx[d]
          /\ hv' = hv]_vars

\* Sm3Duplicate has just overwritten an Active destination that held data
\* with a Consumed source.
C8_Witness ==
  /\ last.op = "Duplicate" /\ last.ret /\ last.c # last.dst
  /\ last.pre = "Fed"
  /\ ctx[last.c].life = "Consumed" /\ ctx[last.dst] = ctx[last.c]

\* C9: whatever calls on other contexts are interleaved, every context is
\* as the calls made on it alone leave it, and every Sm3Init, Sm3Update,
\* Sm3Final and Sm3HashAll returns the value, and writes the digest, that
\* the same call returns and writes when the caller runs alone.
C9_NoSharedState ==
  /\ \A c \in Ctx : ctx[c] = solo[c]
  /\ (last.op \in {"Init", "Update", "Final", "HashAll"} /\ ~Rejected(last))
       => last.ret = last.sret
  /\ (last.op \in {"Final", "HashAll"} /\ ~Rejected(last))
       => hv[last.b] = last.sdig

\* One caller has just finalized its context while the other caller is in
\* the middle of its own sequence, no Sm3Duplicate linking the two.
C9_Witness ==
  /\ ~paired /\ last.op = "Final" /\ last.ret /\ hv[last.b] \in Digest
  /\ \E d \in Ctx \ {last.c} : ctx[d].life = "Active" /\ fed[d] # <<>>

\* the digest of the empty input: Init immediately followed by Final
EmptyDigest == sm3_final(sm3_init(TRUE).ctx, TRUE).digest

\* C10: no call of Sm3HashAll changes a context, and Sm3HashAll(NULL, 0, hv)
\* returns TRUE and, the provider working, writes the digest that Sm3Init
\* immediately followed by Sm3Final writes.
C10_HashAllFrame ==
  [][last'.op = "HashAll"
       => /\ ctx' = ctx /\ fed' = fed
          /\ (last'.data = "NullEmpty" /\ last'.b # NULL)
               => /\ last'.ret
                  /\ last'.pok => hv'[last'.b] = EmptyDigest]_vars

\* Sm3HashAll(NULL, 0, hv) has just written the empty-input digest while a
\* caller's context is Active with data in it.
C10_Witness ==
  /\ last.op = "HashAll" /\ last.data = "NullEmpty" /\ last.ret
  /\ last.pok /\ hv[last.b] = EmptyDigest
  /\ \E c \in Ctx : ctx[c].life = "Active" /\ fed[c] # <<>>

====
